---- MODULE Spec2Model ----
(***************************************************************************)
(* Model of Improvyu/js/interview.js: the voice interview page (resume     *)
(* upload, question/answer loop driven by speech synthesis and speech      *)
(* recognition, final report), the landing page (tool selection and form   *)
(* submission) and the text interview page.                                *)
(*                                                                         *)
(* Every event handler of the script is one action; an `await` splits a    *)
(* handler into the part before it and the continuation that runs when the *)
(* awaited utterance or fetch settles.  The browser and the backend are    *)
(* the environment: they choose when utterances, recognition sessions and  *)
(* requests end and what the backend replies.                              *)
(***************************************************************************)
EXTENDS Naturals, Sequences, FiniteSets

\* ------------------------------------------------------------------ bounds

\* Recognition sessions the user may start beyond one per question.
MaxExtraRecordings == 0

\* Recognition sessions alive at the same time.
MaxLiveSessions == 1

\* Length of the text typed into the job-role field.
MaxRoleLen == 2

\* ------------------------------------------------------------------ values

\* Characters of a typed text: a blank and a letter.
Chars == {" ", "x"}

RECURSIVE TrimStart(_)
TrimStart(s) ==
    IF s # <<>> /\ Head(s) = " " THEN TrimStart(Tail(s)) ELSE s

RECURSIVE TrimEnd(_)
TrimEnd(s) ==
    IF s # <<>> /\ s[Len(s)] = " " THEN TrimEnd(SubSeq(s, 1, Len(s) - 1)) ELSE s

\* String.prototype.trim
Trim(s) == TrimEnd(TrimStart(s))

TypedTexts == UNION {[1..n -> Chars] : n \in 0..MaxRoleLen}

\* data.questions of an ok /api/analyze reply that carries no list.
NoList == <<"undefined">>

\* Question lists the backend may put in an /api/analyze reply.
BackendLists == {<<>>, <<"q1">>, <<"q1", "q2">>}

\* Follow-up questions the backend may put in an /api/follow-up reply.  The
\* backend asks a follow-up at most once in an interview, so an interview has
\* finitely many.
FollowUpTexts == {"f1", "f2"}

NextQuestionMark == "[NEXT_QUESTION]"

\* data.question of an ok /api/follow-up reply ("undefined": the field is absent).
FollowUpFields == FollowUpTexts \cup {NextQuestionMark, "", "undefined"}

\* What the recogniser may deliver as the transcript of a session.
Transcripts == {"a"}

\* getDefaultQuestions(): the five built-in questions, by their first words.
GetDefaultQuestions ==
    <<"Tell me about a challenging project", "Walk through the design of a REST API",
      "How is time complexity analyzed", "Explain how to diagnose a memory leak",
      "What is the difference between processes and threads">>

\* JSON.stringify of a list of strings, as the tokens of the text.
RECURSIVE StringifyItems(_)
StringifyItems(qs) ==
    IF qs = <<>> THEN <<>>
    ELSE <<"'", Head(qs), "'">>
             \o (IF Len(qs) > 1 THEN <<",">> ELSE <<>>)
             \o StringifyItems(Tail(qs))

JSONStringify(qs) == <<"[">> \o StringifyItems(qs) \o <<"]">>

\* JSON.parse of such a text.
RECURSIVE ParseItems(_)
ParseItems(toks) ==
    IF toks = <<>> \/ Head(toks) = "]" THEN <<>>
    ELSE IF Head(toks) = "," THEN ParseItems(Tail(toks))
    ELSE <<toks[2]>> \o ParseItems(SubSeq(toks, 4, Len(toks)))

JSONParse(text) == ParseItems(Tail(text))

VARIABLES
    \* the address of the document, which page's handlers are registered
    \* ("loading" before DOMContentLoaded), and the item 'interviewQuestions' of
    \* sessionStorage (<<>>: no item)
    page, location, sessionStorage,
    \* landing page (handleLandingPage)
    selectedTool, mainActionBtnText, errorMessage, loadingDisplay, formDisplay,
    landingFetch,
    \* text interview page (handleInterviewPage); its closure's variables carry
    \* the names of the voice page's, here with the prefix t
    tInitialQuestions, tConversationHistory, tAllUserAnswers,
    tCurrentQuestionIndex, interviewBox, userInputDisabled,
    userInputAreaHidden, tLoadingDisplay, tErrorMessage, reportSectionHidden,
    tReportContent, tFollowUpInFlight, tEvaluateInFlight,
    \* voice interview page: the closure's state (lines 3-5)
    initialQuestions, conversationHistory, allUserAnswers,
    currentQuestionIndex, isRecording, currentTranscript,
    \* voice interview page: the elements of `ui` the handlers change
    hasFile, selectResumeBtnDisabled, jobRoleSectionHidden, uploadLoaderHidden,
    uploadError, uploadErrorHidden, uploadSectionHidden,
    interviewContainerHidden, setupRun, startInterviewBtnDisabled,
    recordBtnDisabled, questionText, responsesLog, reportResultsHidden,
    reportContent, statusText,
    \* voice interview page: the browser and the backend
    srSupported, analyzeInFlight, followUpInFlight, evaluateInFlight,
    speechQueue, timers, starting, listening, recordingsStarted

landingVars == <<selectedTool, mainActionBtnText, errorMessage,
                 loadingDisplay, formDisplay, landingFetch>>

textVars == <<tInitialQuestions, tConversationHistory, tAllUserAnswers,
              tCurrentQuestionIndex, interviewBox, userInputDisabled,
              userInputAreaHidden, tLoadingDisplay, tErrorMessage,
              reportSectionHidden, tReportContent, tFollowUpInFlight,
              tEvaluateInFlight>>

\* What the handlers of the voice interview page never touch.
appVars == <<page, location, sessionStorage, landingVars, textVars>>

loopVars == <<initialQuestions, conversationHistory, allUserAnswers,
              currentQuestionIndex, questionText, responsesLog>>

uploadVars == <<hasFile, selectResumeBtnDisabled, jobRoleSectionHidden,
                uploadLoaderHidden, uploadError, uploadErrorHidden,
                uploadSectionHidden, interviewContainerHidden, setupRun,
                analyzeInFlight>>

recVars == <<isRecording, currentTranscript, starting, listening,
             recordingsStarted, srSupported>>

reportVars == <<reportResultsHidden, reportContent, evaluateInFlight>>

voiceVars == <<loopVars, uploadVars, recVars, reportVars,
               startInterviewBtnDisabled, recordBtnDisabled, statusText,
               followUpInFlight, speechQueue, timers>>

vars == <<appVars, voiceVars>>

\* Recognition sessions one interview may start: one per question that can be
\* asked, and MaxExtraRecordings more.
MaxRecordings == 2 + Cardinality(FollowUpTexts) + MaxExtraRecordings

\* The elements of a list.
Range(qs) == {qs[i] : i \in 1..Len(qs)}

\* ------------------------------------------------------- voice interview page

VoiceInit ==
    /\ initialQuestions = <<>>
    /\ conversationHistory = <<>>
    /\ allUserAnswers = <<>>
    /\ currentQuestionIndex = 0
    /\ isRecording = FALSE
    /\ currentTranscript = ""
    /\ hasFile = FALSE
    /\ selectResumeBtnDisabled = FALSE
    /\ jobRoleSectionHidden = TRUE
    /\ uploadLoaderHidden = TRUE
    /\ uploadError = ""
    /\ uploadErrorHidden = TRUE
    /\ uploadSectionHidden = FALSE
    /\ interviewContainerHidden = TRUE
    /\ setupRun = {}
    /\ startInterviewBtnDisabled = FALSE
    /\ recordBtnDisabled = TRUE
    /\ questionText = ""
    /\ responsesLog = <<>>
    /\ reportResultsHidden = TRUE
    /\ reportContent = ""
    /\ statusText = ""
    /\ analyzeInFlight = <<>>
    /\ followUpInFlight = 0
    /\ evaluateInFlight = <<>>
    /\ speechQueue = <<>>
    /\ timers = 0
    /\ starting = 0
    /\ listening = 0
    /\ recordingsStarted = 0

\* speak(text): the utterance joins the synthesiser's queue; the promise
\* resolves when the utterance ends (UtteranceEnd).
Speak(kind) ==
    /\ statusText' = "AI is speaking..."
    /\ speechQueue' = Append(speechQueue, kind)

\* logToConversation(role, text)
LogToConversation(role, text) ==
    responsesLog' = Append(responsesLog, <<role, text>>)

\* askNextQuestion as it would be without the call of endInterview: an
\* exhausted list ends the call.
AskNextQuestion_NoEnd ==
    IF initialQuestions = NoList \/ currentQuestionIndex >= Len(initialQuestions)
    THEN UNCHANGED <<currentQuestionIndex, conversationHistory, questionText,
                     responsesLog, recordBtnDisabled, statusText, speechQueue>>
    ELSE LET question == initialQuestions[currentQuestionIndex + 1] IN
         /\ currentQuestionIndex' = currentQuestionIndex + 1
         /\ conversationHistory' =
                Append(conversationHistory, <<"model", question>>)
         /\ questionText' = question
         /\ LogToConversation("Improvyu", question)
         /\ recordBtnDisabled' = TRUE
         /\ Speak("question")

\* askNextQuestion, up to its first await.  With no question list
\* (initialQuestions undefined) reading .length throws and the call ends.
AskNextQuestion ==
    IF initialQuestions = NoList
    THEN UNCHANGED <<currentQuestionIndex, conversationHistory, questionText,
                     responsesLog, recordBtnDisabled, statusText, speechQueue>>
    ELSE IF currentQuestionIndex >= Len(initialQuestions)
    THEN /\ Speak("closing")
         /\ UNCHANGED <<currentQuestionIndex, conversationHistory, questionText,
                        responsesLog, recordBtnDisabled>>
    ELSE LET question == initialQuestions[currentQuestionIndex + 1] IN
         /\ currentQuestionIndex' = currentQuestionIndex + 1
         /\ conversationHistory' =
                Append(conversationHistory, <<"model", question>>)
         /\ questionText' = question
         /\ LogToConversation("Improvyu", question)
         /\ recordBtnDisabled' = TRUE
         /\ Speak("question")

\* resumeFile 'change': handleFileSelection.  The user picks a file or leaves
\* the dialog without one.
HandleFileSelection ==
    /\ page = "voice"
    /\ ~uploadSectionHidden /\ ~selectResumeBtnDisabled
    /\ \E picked \in BOOLEAN :
        /\ hasFile' = picked
        /\ IF picked
           THEN /\ selectResumeBtnDisabled' = TRUE
                /\ jobRoleSectionHidden' = FALSE
           ELSE UNCHANGED <<selectResumeBtnDisabled, jobRoleSectionHidden>>
    /\ UNCHANGED <<appVars, loopVars, recVars, reportVars,
                   uploadLoaderHidden, uploadError, uploadErrorHidden,
                   uploadSectionHidden, interviewContainerHidden, setupRun,
                   analyzeInFlight, startInterviewBtnDisabled,
                   recordBtnDisabled, statusText, followUpInFlight,
                   speechQueue, timers>>

\* handleJobRoleSubmit as it would be if it tested the typed text untrimmed.
HandleJobRoleSubmit_NoTrim ==
    /\ page = "voice"
    /\ ~uploadSectionHidden /\ ~jobRoleSectionHidden
    /\ \E typed \in TypedTexts :
        LET jobRole == typed IN
        IF jobRole = <<>>
        THEN UNCHANGED <<uploadLoaderHidden, jobRoleSectionHidden, uploadError,
                         analyzeInFlight>>
        ELSE /\ uploadLoaderHidden' = FALSE
             /\ jobRoleSectionHidden' = TRUE
             /\ uploadError' = ""
             /\ analyzeInFlight' =
                    Append(analyzeInFlight, <<hasFile, jobRole>>)
    /\ UNCHANGED <<appVars, loopVars, recVars, reportVars, hasFile,
                   selectResumeBtnDisabled, uploadErrorHidden,
                   uploadSectionHidden, interviewContainerHidden, setupRun,
                   startInterviewBtnDisabled, recordBtnDisabled, statusText,
                   followUpInFlight, speechQueue, timers>>

\* submitJobRoleBtn 'click': handleJobRoleSubmit, up to the fetch.
HandleJobRoleSubmit ==
    /\ page = "voice"
    /\ ~uploadSectionHidden /\ ~jobRoleSectionHidden
    /\ \E typed \in TypedTexts :
        LET jobRole == Trim(typed) IN
        IF jobRole = <<>>
        THEN UNCHANGED <<uploadLoaderHidden, jobRoleSectionHidden, uploadError,
                         analyzeInFlight>>
        ELSE /\ uploadLoaderHidden' = FALSE
             /\ jobRoleSectionHidden' = TRUE
             /\ uploadError' = ""
             /\ analyzeInFlight' =
                    Append(analyzeInFlight, <<hasFile, jobRole>>)
    /\ UNCHANGED <<appVars, loopVars, recVars, reportVars, hasFile,
                   selectResumeBtnDisabled, uploadErrorHidden,
                   uploadSectionHidden, interviewContainerHidden, setupRun,
                   startInterviewBtnDisabled, recordBtnDisabled, statusText,
                   followUpInFlight, speechQueue, timers>>

\* Outcomes of a request: the fetch or the reading of the body fails, the
\* reply is not ok, the reply is ok.
Outcomes == {"failed", "notok", "ok"}

\* handleJobRoleSubmit, from the reply of /api/analyze on.
AnalyzeSettleWith(outcome, questions) ==
    /\ page = "voice"
    /\ analyzeInFlight # <<>>
    /\ analyzeInFlight' = Tail(analyzeInFlight)
    /\ IF outcome = "ok"
       THEN /\ initialQuestions' = questions
            /\ uploadSectionHidden' = TRUE
            /\ interviewContainerHidden' = FALSE
            /\ setupRun' = {"avatar", "media", "speech"}
            /\ UNCHANGED <<uploadLoaderHidden, uploadError, uploadErrorHidden,
                           selectResumeBtnDisabled>>
       ELSE /\ uploadLoaderHidden' = TRUE
            /\ uploadError' = outcome
            /\ uploadErrorHidden' = FALSE
            /\ selectResumeBtnDisabled' = FALSE
            /\ UNCHANGED <<initialQuestions, uploadSectionHidden,
                           interviewContainerHidden, setupRun>>
    /\ UNCHANGED <<appVars, conversationHistory, allUserAnswers,
                   currentQuestionIndex, questionText, responsesLog, recVars,
                   reportVars, hasFile, jobRoleSectionHidden,
                   startInterviewBtnDisabled, recordBtnDisabled, statusText,
                   followUpInFlight, speechQueue, timers>>

AnalyzeSettle ==
    \E outcome \in Outcomes, questions \in BackendLists \cup {NoList} :
        /\ outcome # "ok" => questions = NoList
        /\ AnalyzeSettleWith(outcome, questions)

\* startInterviewBtn 'click'
StartInterviewClick ==
    /\ page = "voice"
    /\ ~interviewContainerHidden /\ ~startInterviewBtnDisabled
    /\ startInterviewBtnDisabled' = TRUE
    /\ AskNextQuestion
    /\ UNCHANGED <<appVars, initialQuestions, allUserAnswers, uploadVars,
                   recVars, reportVars, followUpInFlight, timers>>

\* utterance.onend, and the continuation of the function that awaits speak():
\* askNextQuestion (line 175) or endInterview (lines 238-247).
UtteranceEnd ==
    /\ page = "voice"
    /\ speechQueue # <<>>
    /\ speechQueue' = Tail(speechQueue)
    /\ statusText' = "Ready for your answer."
    /\ IF Head(speechQueue) = "question"
       THEN /\ recordBtnDisabled' = FALSE
            /\ UNCHANGED reportVars
       ELSE /\ recordBtnDisabled' = TRUE
            /\ reportResultsHidden' = FALSE
            /\ reportContent' = "Evaluating..."
            /\ evaluateInFlight' = Append(evaluateInFlight, allUserAnswers)
    /\ UNCHANGED <<appVars, loopVars, uploadVars, recVars,
                   startInterviewBtnDisabled, followUpInFlight, timers>>

\* endInterview, from the reply of /api/evaluate on.
EvaluateSettle ==
    /\ page = "voice"
    /\ \E i \in 1..Len(evaluateInFlight), outcome \in Outcomes :
        /\ evaluateInFlight' =
               SubSeq(evaluateInFlight, 1, i - 1)
                   \o SubSeq(evaluateInFlight, i + 1, Len(evaluateInFlight))
        /\ IF outcome = "ok"
           THEN /\ reportContent' = "report"
                /\ statusText' = "Report Complete."
           ELSE /\ reportContent' = "Error: Could not retrieve report."
                /\ UNCHANGED statusText
    /\ UNCHANGED <<appVars, loopVars, uploadVars, recVars, reportResultsHidden,
                   startInterviewBtnDisabled, recordBtnDisabled,
                   followUpInFlight, speechQueue, timers>>

\* recordBtn 'click': toggleRecording.  stop() only asks the recogniser to end
\* the session, which SessionEnd does; an unsupported browser gets an alert.
ToggleRecording ==
    /\ page = "voice"
    /\ ~interviewContainerHidden /\ ~recordBtnDisabled
    /\ IF isRecording \/ ~srSupported
       THEN UNCHANGED <<currentTranscript, starting, recordingsStarted>>
       ELSE /\ recordingsStarted < MaxRecordings
            /\ starting + listening < MaxLiveSessions
            /\ currentTranscript' = ""
            /\ starting' = starting + 1
            /\ recordingsStarted' = recordingsStarted + 1
    /\ UNCHANGED <<appVars, loopVars, uploadVars, reportVars, isRecording,
                   listening, srSupported, startInterviewBtnDisabled,
                   recordBtnDisabled, statusText, followUpInFlight,
                   speechQueue, timers>>

\* speechRecognition.onstart
SessionStart ==
    /\ page = "voice"
    /\ starting > 0
    /\ starting' = starting - 1
    /\ listening' = listening + 1
    /\ isRecording' = TRUE
    /\ statusText' = "Listening..."
    /\ UNCHANGED <<appVars, loopVars, uploadVars, reportVars,
                   currentTranscript, recordingsStarted, srSupported,
                   startInterviewBtnDisabled, recordBtnDisabled,
                   followUpInFlight, speechQueue, timers>>

\* speechRecognition.onresult
SessionResult ==
    /\ page = "voice"
    /\ listening > 0
    /\ \E t \in Transcripts : currentTranscript' = t
    /\ UNCHANGED <<appVars, loopVars, uploadVars, reportVars, isRecording,
                   starting, listening, recordingsStarted, srSupported,
                   startInterviewBtnDisabled, recordBtnDisabled, statusText,
                   followUpInFlight, speechQueue, timers>>

\* onend as it would be with the setTimeout inside `if (currentTranscript)`.
SessionEnd_NoSchedule ==
    /\ page = "voice"
    /\ \/ /\ listening > 0
          /\ listening' = listening - 1
          /\ UNCHANGED starting
       \/ /\ starting > 0
          /\ starting' = starting - 1
          /\ UNCHANGED listening
    /\ isRecording' = FALSE
    /\ statusText' = "Processing..."
    /\ IF currentTranscript # ""
       THEN /\ allUserAnswers' = Append(allUserAnswers, currentTranscript)
            /\ conversationHistory' =
                   Append(conversationHistory, <<"user", currentTranscript>>)
            /\ LogToConversation("You", currentTranscript)
            /\ followUpInFlight' = followUpInFlight + 1
            /\ UNCHANGED timers
       ELSE UNCHANGED <<timers, allUserAnswers, conversationHistory,
                        responsesLog, followUpInFlight>>
    /\ UNCHANGED <<appVars, initialQuestions, currentQuestionIndex,
                   questionText, uploadVars, reportVars, currentTranscript,
                   recordingsStarted, srSupported, startInterviewBtnDisabled,
                   recordBtnDisabled, speechQueue>>

\* speechRecognition.onend, up to the fetch of /api/follow-up (a transcript was
\* heard) or to the setTimeout (none was).  A session ends after it started, or
\* without starting when the recogniser fails.
SessionEnd ==
    /\ page = "voice"
    /\ \/ /\ listening > 0
          /\ listening' = listening - 1
          /\ UNCHANGED starting
       \/ /\ starting > 0
          /\ starting' = starting - 1
          /\ UNCHANGED listening
    /\ isRecording' = FALSE
    /\ statusText' = "Processing..."
    /\ IF currentTranscript # ""
       THEN /\ allUserAnswers' = Append(allUserAnswers, currentTranscript)
            /\ conversationHistory' =
                   Append(conversationHistory, <<"user", currentTranscript>>)
            /\ LogToConversation("You", currentTranscript)
            /\ followUpInFlight' = followUpInFlight + 1
            /\ UNCHANGED timers
       ELSE /\ timers' = timers + 1
            /\ UNCHANGED <<allUserAnswers, conversationHistory, responsesLog,
                           followUpInFlight>>
    /\ UNCHANGED <<appVars, initialQuestions, currentQuestionIndex,
                   questionText, uploadVars, reportVars, currentTranscript,
                   recordingsStarted, srSupported, startInterviewBtnDisabled,
                   recordBtnDisabled, speechQueue>>

\* Array.prototype.splice(index, 0, item)
Splice(qs, index, item) ==
    SubSeq(qs, 1, index) \o <<item>> \o SubSeq(qs, index + 1, Len(qs))

\* The truthiness of data.question.
Truthy(field) == field \notin {"", "undefined"}

\* onend as it would be with the setTimeout inside the try block: a failed
\* request schedules nothing.
FollowUpSettleWith_NoRetry(outcome, followUp) ==
    /\ page = "voice"
    /\ followUpInFlight > 0
    /\ followUpInFlight' = followUpInFlight - 1
    /\ IF /\ outcome = "ok"
          /\ Truthy(followUp) /\ followUp # NextQuestionMark
          /\ initialQuestions # NoList
       THEN initialQuestions' =
                Splice(initialQuestions, currentQuestionIndex, followUp)
       ELSE UNCHANGED initialQuestions
    /\ timers' = IF outcome = "ok" THEN timers + 1 ELSE timers
    /\ UNCHANGED <<appVars, conversationHistory, allUserAnswers,
                   currentQuestionIndex, questionText, responsesLog,
                   uploadVars, recVars, reportVars, startInterviewBtnDisabled,
                   recordBtnDisabled, statusText, speechQueue>>

\* speechRecognition.onend, from the reply of /api/follow-up on.
FollowUpSettleWith(outcome, followUp) ==
    /\ page = "voice"
    /\ followUpInFlight > 0
    /\ followUpInFlight' = followUpInFlight - 1
    /\ IF /\ outcome = "ok"
          /\ Truthy(followUp) /\ followUp # NextQuestionMark
          /\ initialQuestions # NoList
       THEN initialQuestions' =
                Splice(initialQuestions, currentQuestionIndex, followUp)
       ELSE UNCHANGED initialQuestions
    /\ timers' = timers + 1
    /\ UNCHANGED <<appVars, conversationHistory, allUserAnswers,
                   currentQuestionIndex, questionText, responsesLog,
                   uploadVars, recVars, reportVars, startInterviewBtnDisabled,
                   recordBtnDisabled, statusText, speechQueue>>

FollowUpSettle ==
    \E outcome \in Outcomes, followUp \in FollowUpFields :
        /\ outcome # "ok" => followUp = "undefined"
        /\ followUp \in FollowUpTexts => followUp \notin Range(initialQuestions)
        /\ FollowUpSettleWith(outcome, followUp)

\* The timeout of line 230 fires: askNextQuestion.
TimerFire ==
    /\ page = "voice"
    /\ timers > 0
    /\ timers' = timers - 1
    /\ AskNextQuestion
    /\ UNCHANGED <<appVars, initialQuestions, allUserAnswers, uploadVars,
                   recVars, reportVars, startInterviewBtnDisabled,
                   followUpInFlight>>

VoiceNext ==
    \/ HandleFileSelection
    \/ HandleJobRoleSubmit
    \/ AnalyzeSettle
    \/ StartInterviewClick
    \/ UtteranceEnd
    \/ EvaluateSettle
    \/ ToggleRecording
    \/ SessionStart
    \/ SessionResult
    \/ SessionEnd
    \/ FollowUpSettle
    \/ TimerFire

\* ---------------------------------------------------------------- landing page

\* data-tool of the three tool buttons.
Tools == {"interview", "ats", "placement"}

LandingInit ==
    /\ selectedTool = "interview"
    /\ mainActionBtnText = ""
    /\ errorMessage = ""
    /\ loadingDisplay = ""
    /\ formDisplay = ""
    /\ landingFetch = 0

\* 'click' on a tool button.
ToolClick ==
    /\ page = "landing"
    /\ \E tool \in Tools :
        /\ selectedTool' = tool
        /\ mainActionBtnText' =
               IF tool = "ats" THEN "Check Your Resume"
               ELSE IF tool = "placement" THEN "Explore Resources"
               ELSE "Start AI Interview"
    /\ UNCHANGED <<page, location, sessionStorage, errorMessage,
                   loadingDisplay, formDisplay, landingFetch, textVars,
                   voiceVars>>

\* window.location.href = url: the document, with its elements and the
\* handlers' variables, is discarded and the next one loads.
Navigate(url) ==
    /\ location' = url
    /\ page' = "loading"
    /\ selectedTool' = "interview"
    /\ mainActionBtnText' = ""
    /\ errorMessage' = ""
    /\ loadingDisplay' = ""
    /\ formDisplay' = ""

\* The submit handler as it would be without the 'ats' redirect.
LandingSubmit_NoAts ==
    /\ page = "landing"
    /\ formDisplay # "none"
    /\ IF selectedTool = "placement"
       THEN /\ Navigate("placementresources.html")
            /\ UNCHANGED landingFetch
       ELSE /\ errorMessage' = ""
            /\ loadingDisplay' = "block"
            /\ formDisplay' = "none"
            /\ landingFetch' = landingFetch + 1
            /\ UNCHANGED <<page, location, selectedTool, mainActionBtnText>>
    /\ UNCHANGED <<sessionStorage, textVars, voiceVars>>

\* resumeForm 'submit', up to the fetch.
LandingSubmit ==
    /\ page = "landing"
    /\ formDisplay # "none"
    /\ IF selectedTool = "ats"
       THEN /\ Navigate("resumechecker.html")
            /\ UNCHANGED landingFetch
       ELSE IF selectedTool = "placement"
       THEN /\ Navigate("placementresources.html")
            /\ UNCHANGED landingFetch
       ELSE /\ errorMessage' = ""
            /\ loadingDisplay' = "block"
            /\ formDisplay' = "none"
            /\ landingFetch' = landingFetch + 1
            /\ UNCHANGED <<page, location, selectedTool, mainActionBtnText>>
    /\ UNCHANGED <<sessionStorage, textVars, voiceVars>>

\* The stored questions as they would be without the test of the length.
QuestionsToStore_NoLength(questions) ==
    IF questions # NoList THEN questions ELSE GetDefaultQuestions

\* The questions the submit handler stores for an ok reply.
QuestionsToStore(questions) ==
    IF questions # NoList /\ Len(questions) > 0
    THEN questions
    ELSE GetDefaultQuestions

\* The submit handler's catch block.
LandingFallback ==
    LET fallback == GetDefaultQuestions IN
    IF Len(fallback) > 0
    THEN /\ sessionStorage' = JSONStringify(fallback)
         /\ Navigate("/interview.html")
    ELSE /\ errorMessage' = "Error"
         /\ loadingDisplay' = "none"
         /\ formDisplay' = "flex"
         /\ UNCHANGED <<sessionStorage, page, location, selectedTool,
                        mainActionBtnText>>

\* resumeForm 'submit', from the reply of /api/analyze on.
LandingSettleWith(outcome, questions) ==
    /\ page = "landing"
    /\ landingFetch > 0
    /\ landingFetch' = landingFetch - 1
    /\ IF outcome = "ok"
       THEN /\ sessionStorage' = JSONStringify(QuestionsToStore(questions))
            /\ Navigate("/interview.html")
       ELSE LandingFallback
    /\ UNCHANGED <<textVars, voiceVars>>

LandingSettle ==
    \E outcome \in Outcomes, questions \in BackendLists \cup {NoList} :
        /\ outcome # "ok" => questions = NoList
        /\ LandingSettleWith(outcome, questions)

LandingNext ==
    \/ ToolClick
    \/ LandingSubmit
    \/ LandingSettle

\* --------------------------------------------------------- text interview page

\* Texts the user may have typed into the answer field when submitting.
TypedAnswers == {<<>>, <<" ">>, <<"x">>, <<"x", " ">>}

ThanksText == "Thank you for your answers. Generating your performance report now..."

TextInit ==
    /\ tInitialQuestions = <<>>
    /\ tConversationHistory = <<>>
    /\ tAllUserAnswers = <<>>
    /\ tCurrentQuestionIndex = 0
    /\ interviewBox = <<>>
    /\ userInputDisabled = FALSE
    /\ userInputAreaHidden = FALSE
    /\ tLoadingDisplay = ""
    /\ tErrorMessage = ""
    /\ reportSectionHidden = TRUE
    /\ tReportContent = ""
    /\ tFollowUpInFlight = 0
    /\ tEvaluateInFlight = <<>>

\* askNextInitialQuestion over the list qs (endInterview, up to its fetch, when
\* the list is exhausted).  `hideLoading`: the caller is handleAnswerSubmission,
\* whose finally block hides the loading indicator after the call.
AskNextInitialQuestion(qs, hideLoading) ==
    IF tCurrentQuestionIndex < Len(qs)
    THEN LET question == qs[tCurrentQuestionIndex + 1] IN
         /\ interviewBox' = Append(interviewBox, <<"AI", question>>)
         /\ tConversationHistory' =
                Append(tConversationHistory, <<"model", question>>)
         /\ userInputDisabled' = FALSE
         /\ tCurrentQuestionIndex' = tCurrentQuestionIndex + 1
         /\ tLoadingDisplay' = IF hideLoading THEN "none" ELSE tLoadingDisplay
         /\ UNCHANGED <<userInputAreaHidden, tEvaluateInFlight>>
    ELSE /\ interviewBox' = Append(interviewBox, <<"AI", ThanksText>>)
         /\ userInputAreaHidden' = TRUE
         /\ tLoadingDisplay' = IF hideLoading THEN "none" ELSE "block"
         /\ tEvaluateInFlight' = Append(tEvaluateInFlight, tAllUserAnswers)
         /\ UNCHANGED <<tConversationHistory, userInputDisabled,
                        tCurrentQuestionIndex>>

\* startInterview: the stored list, or the default questions without one.
StartInterview ==
    LET qs == IF sessionStorage = <<>>
              THEN GetDefaultQuestions
              ELSE JSONParse(sessionStorage) IN
    /\ tInitialQuestions' = qs
    /\ AskNextInitialQuestion(qs, FALSE)
    /\ UNCHANGED <<tAllUserAnswers, tErrorMessage, reportSectionHidden,
                   tReportContent, tFollowUpInFlight>>

\* DOMContentLoaded (lines 1, 285-295): the landing page holds #lenora-section;
\* interview.html is the voice interview page, or, when its body carries the
\* class interview-page, the text interview page.  No handler of the voice
\* page reads sessionStorage and none leaves the page, so the stored item is
\* dropped from the state when that page loads.
DOMContentLoaded ==
    /\ page = "loading"
    /\ \/ /\ location = "index.html"
          /\ page' = "landing"
          /\ UNCHANGED <<sessionStorage, textVars>>
       \/ /\ location = "/interview.html"
          /\ page' = "voice"
          /\ sessionStorage' = <<>>
          /\ UNCHANGED textVars
       \/ /\ location = "/interview.html"
          /\ page' = "text"
          /\ StartInterview
          /\ UNCHANGED sessionStorage
    /\ UNCHANGED <<location, landingVars, voiceVars>>

\* Follow-ups an interview on the text page may show.
MaxTextFollowUps == 2

TextFollowUpsShown ==
    Cardinality({i \in 1..Len(tConversationHistory) :
                    tConversationHistory[i][1] = "model"}) - tCurrentQuestionIndex

\* submitBtn 'click' or Enter: handleAnswerSubmission, up to the fetch.
HandleAnswerSubmission ==
    /\ page = "text"
    /\ ~userInputDisabled /\ ~userInputAreaHidden
    /\ \E typed \in TypedAnswers :
        LET answer == Trim(typed) IN
        IF answer = <<>>
        THEN UNCHANGED textVars
        ELSE /\ userInputDisabled' = TRUE
             /\ interviewBox' = Append(interviewBox, <<"You", answer>>)
             /\ tAllUserAnswers' = Append(tAllUserAnswers, answer)
             /\ tConversationHistory' =
                    Append(tConversationHistory, <<"user", answer>>)
             /\ tLoadingDisplay' = "block"
             /\ tFollowUpInFlight' = tFollowUpInFlight + 1
             /\ UNCHANGED <<tInitialQuestions, tCurrentQuestionIndex,
                            userInputAreaHidden, tErrorMessage,
                            reportSectionHidden, tReportContent,
                            tEvaluateInFlight>>
    /\ UNCHANGED <<page, location, sessionStorage, landingVars, voiceVars>>

\* handleAnswerSubmission as it would be without the test for
\* '[NEXT_QUESTION]': every ok reply is shown as a follow-up.
TextFollowUpSettleWith_ShowsMark(outcome, followUp) ==
    /\ page = "text"
    /\ tFollowUpInFlight > 0
    /\ tFollowUpInFlight' = tFollowUpInFlight - 1
    /\ IF outcome = "ok"
       THEN /\ interviewBox' = Append(interviewBox, <<"AI", followUp>>)
            /\ tConversationHistory' =
                   Append(tConversationHistory, <<"model", followUp>>)
            /\ userInputDisabled' = FALSE
            /\ tLoadingDisplay' = "none"
            /\ UNCHANGED <<tCurrentQuestionIndex, userInputAreaHidden,
                           tEvaluateInFlight, tErrorMessage>>
       ELSE /\ tErrorMessage' = "Error"
            /\ AskNextInitialQuestion(tInitialQuestions, TRUE)
    /\ UNCHANGED <<tInitialQuestions, tAllUserAnswers, reportSectionHidden,
                   tReportContent>>
    /\ UNCHANGED <<page, location, sessionStorage, landingVars, voiceVars>>

\* handleAnswerSubmission, from the reply of /api/follow-up on.
TextFollowUpSettleWith(outcome, followUp) ==
    /\ page = "text"
    /\ tFollowUpInFlight > 0
    /\ tFollowUpInFlight' = tFollowUpInFlight - 1
    /\ IF outcome = "ok"
       THEN IF followUp = NextQuestionMark
            THEN /\ AskNextInitialQuestion(tInitialQuestions, TRUE)
                 /\ UNCHANGED tErrorMessage
            ELSE /\ interviewBox' = Append(interviewBox, <<"AI", followUp>>)
                 /\ tConversationHistory' =
                        Append(tConversationHistory, <<"model", followUp>>)
                 /\ userInputDisabled' = FALSE
                 /\ tLoadingDisplay' = "none"
                 /\ UNCHANGED <<tCurrentQuestionIndex, userInputAreaHidden,
                                tEvaluateInFlight, tErrorMessage>>
       ELSE /\ tErrorMessage' = "Error"
            /\ AskNextInitialQuestion(tInitialQuestions, TRUE)
    /\ UNCHANGED <<tInitialQuestions, tAllUserAnswers, reportSectionHidden,
                   tReportContent>>
    /\ UNCHANGED <<page, location, sessionStorage, landingVars, voiceVars>>

TextFollowUpSettle ==
    \E outcome \in Outcomes, followUp \in FollowUpFields :
        /\ outcome # "ok" => followUp = "undefined"
        /\ (outcome = "ok" /\ followUp # NextQuestionMark) =>
               TextFollowUpsShown < MaxTextFollowUps
        /\ TextFollowUpSettleWith(outcome, followUp)

\* endInterview of the text page, from the reply of /api/evaluate on.
TextEvaluateSettle ==
    /\ page = "text"
    /\ tEvaluateInFlight # <<>>
    /\ tEvaluateInFlight' = Tail(tEvaluateInFlight)
    /\ \E outcome \in Outcomes :
        IF outcome = "ok"
        THEN /\ tReportContent' = "report"
             /\ reportSectionHidden' = FALSE
             /\ UNCHANGED tErrorMessage
        ELSE /\ tErrorMessage' = "Error generating report"
             /\ UNCHANGED <<tReportContent, reportSectionHidden>>
    /\ tLoadingDisplay' = "none"
    /\ UNCHANGED <<tInitialQuestions, tConversationHistory, tAllUserAnswers,
                   tCurrentQuestionIndex, interviewBox, userInputDisabled,
                   userInputAreaHidden, tFollowUpInFlight>>
    /\ UNCHANGED <<page, location, sessionStorage, landingVars, voiceVars>>

TextNext ==
    \/ HandleAnswerSubmission
    \/ TextFollowUpSettle
    \/ TextEvaluateSettle

\* ------------------------------------------------------------- specification

\* A browser session opens the landing page or interview.html; nothing is
\* stored yet.
Init ==
    /\ page = "loading"
    /\ location \in {"index.html", "/interview.html"}
    /\ sessionStorage = <<>>
    /\ srSupported \in BOOLEAN
    /\ LandingInit
    /\ TextInit
    /\ VoiceInit

Next ==
    \/ DOMContentLoaded
    \/ LandingNext
    \/ TextNext
    \/ VoiceNext

Spec == Init /\ [][Next]_vars

\* The user starts a recognition session (toggleRecording's else branch).
RecordAnswer == ToggleRecording /\ starting' = starting + 1

\* Every utterance ends, every recognition session starts and ends, every
\* fetch of the voice interview settles, every timeout fires, and the user
\* records an answer whenever the record button lets them.
LiveSpec ==
    /\ Spec
    /\ WF_vars(UtteranceEnd)
    /\ WF_vars(SessionStart)
    /\ WF_vars(SessionEnd)
    /\ WF_vars(FollowUpSettle)
    /\ WF_vars(EvaluateSettle)
    /\ WF_vars(TimerFire)
    /\ WF_vars(RecordAnswer)

\* -------------------------------------------------------------------- claims

ReportShown == reportContent \in {"report", "Error: Could not retrieve report."}

\* C1: once Start has been clicked with a question list, in a browser where the
\* user can record, the interview reaches the report stage: the report area
\* shows the report or the 'Could not retrieve report' error.
C1_ReachesReport ==
    (startInterviewBtnDisabled /\ initialQuestions # NoList /\ srSupported)
        ~> ReportShown

\* An interview of two questions and a follow-up, all asked and answered, whose
\* report is shown.
C1_Witness ==
    /\ ReportShown
    /\ Len(initialQuestions) = 3
    /\ currentQuestionIndex = 3
    /\ Len(allUserAnswers) = 3

\* C2: askNextQuestion is never started while an earlier question is still
\* being spoken or while a /api/follow-up request is pending.
C2_StrictlySequential ==
    [][(timers' < timers \/ (~startInterviewBtnDisabled /\ startInterviewBtnDisabled'))
          => (speechQueue = <<>> /\ followUpInFlight = 0)]_vars

\* The questions the voice page has asked, the questions the text page has
\* shown, the questions the landing page has stored.
VoiceQuestionsAsked ==
    {conversationHistory[i][2] :
        i \in {j \in 1..Len(conversationHistory) : conversationHistory[j][1] = "model"}}

TextQuestionsShown ==
    {interviewBox[i][2] :
        i \in {j \in 1..Len(interviewBox) : interviewBox[j][1] = "AI"}} \ {ThanksText}

StoredQuestions ==
    IF sessionStorage = <<>> THEN {} ELSE Range(JSONParse(sessionStorage))

\* The questions of the backend's replies; the text page shows an empty or
\* missing question field of an ok /api/follow-up reply as it is.
BackendQuestions == UNION {Range(l) : l \in BackendLists} \cup FollowUpTexts

BackendFields == BackendQuestions \cup {"", "undefined"}

\* C3 as stated: every question presented (asked by the voice page, shown by
\* the text page, stored by the landing page) came from a backend reply.
C3_AllFromBackend ==
    (VoiceQuestionsAsked \cup TextQuestionsShown \cup StoredQuestions)
        \subseteq BackendFields

\* C3 as amended: every question presented came from a backend reply or is one
\* of the default questions; the text page runs on a backend list or on the
\* default list; the voice page asks backend questions only.
C3_BackendOrDefault ==
    /\ (TextQuestionsShown \cup StoredQuestions)
           \subseteq (BackendFields \cup Range(GetDefaultQuestions))
    /\ page = "text" =>
           tInitialQuestions \in BackendLists \cup {GetDefaultQuestions}
    /\ VoiceQuestionsAsked \subseteq BackendQuestions

\* The text page has shown a default question and a follow-up of the backend.
C3_Witness ==
    /\ page = "text"
    /\ GetDefaultQuestions[1] \in TextQuestionsShown
    /\ "f1" \in TextQuestionsShown

\* C4: every /api/analyze request of the voice page carries a non-empty trimmed
\* job role; the interview container becomes visible only in the step that
\* handles an ok reply to such a request, which sets initialQuestions to the
\* reply's list and runs the avatar, media and speech setup.
C4_OnlyAfterAnalysis ==
    /\ [](\A i \in 1..Len(analyzeInFlight) :
            /\ analyzeInFlight[i][2] # <<>>
            /\ Trim(analyzeInFlight[i][2]) = analyzeInFlight[i][2])
    /\ [](interviewContainerHidden <=> setupRun = {})
    /\ [][(interviewContainerHidden /\ ~interviewContainerHidden')
             => \E questions \in BackendLists \cup {NoList} :
                   /\ AnalyzeSettleWith("ok", questions)
                   /\ initialQuestions' = questions
                   /\ setupRun' = {"avatar", "media", "speech"}]_vars

\* The interview container is visible and holds the backend's two questions.
C4_Witness ==
    /\ ~interviewContainerHidden
    /\ initialQuestions = <<"q1", "q2">>
    /\ analyzeInFlight = <<>>
    /\ ~startInterviewBtnDisabled

\* C5: /api/evaluate is requested only with the question list exhausted and
\* with the answers recorded so far as its body, and once it has been
\* requested no question is appended or asked.
C5_EvaluateAfterExhaustion ==
    [][/\ Len(evaluateInFlight') > Len(evaluateInFlight)
            => /\ currentQuestionIndex >= Len(initialQuestions)
               /\ evaluateInFlight'[Len(evaluateInFlight')] = allUserAnswers
       /\ ~reportResultsHidden
            => /\ initialQuestions' = initialQuestions
               /\ currentQuestionIndex' = currentQuestionIndex]_vars

\* C6: the step that handles the reply of the landing page's /api/analyze
\* request navigates to /interview.html with a non-empty list stored: the
\* backend's list for an ok reply with a non-empty list, the default questions
\* otherwise; the error message is never shown and the form never restored.
C6_LandingFallback ==
    [][landingFetch' < landingFetch
          => /\ location' = "/interview.html"
             /\ page' = "loading"
             /\ sessionStorage' # <<>>
             /\ Len(JSONParse(sessionStorage')) > 0
             /\ \A outcome \in Outcomes, questions \in BackendLists \cup {NoList} :
                   LandingSettleWith(outcome, questions)
                       => JSONParse(sessionStorage') =
                              IF outcome = "ok" /\ questions \in BackendLists
                                                /\ questions # <<>>
                              THEN questions
                              ELSE GetDefaultQuestions
             /\ errorMessage' = ""
             /\ formDisplay' # "flex"]_vars

\* The landing page has stored the default questions and left for
\* /interview.html.
C6_Witness ==
    /\ location = "/interview.html"
    /\ page = "loading"
    /\ sessionStorage = JSONStringify(GetDefaultQuestions)

\* The tool whose click leaves the given text on the main button.
ToolOfText(text) ==
    IF text = "Check Your Resume" THEN "ats"
    ELSE IF text = "Explore Resources" THEN "placement"
    ELSE "interview"

\* A step of the submit handler's synchronous part.
SubmitStep ==
    /\ page = "landing"
    /\ formDisplay # "none"
    /\ (location' # location \/ landingFetch' > landingFetch)

\* C7: selectedTool is the tool clicked last ('interview' when none was);
\* submitting with 'ats' or 'placement' navigates to that tool's page, sends no
\* request and writes nothing to sessionStorage; only 'interview' sends the
\* /api/analyze request.
C7_ToolRouting ==
    /\ [](selectedTool = ToolOfText(mainActionBtnText))
    /\ [][SubmitStep
            => /\ selectedTool = "ats"
                  => /\ location' = "resumechecker.html"
                     /\ landingFetch' = landingFetch
                     /\ sessionStorage' = sessionStorage
               /\ selectedTool = "placement"
                  => /\ location' = "placementresources.html"
                     /\ landingFetch' = landingFetch
                     /\ sessionStorage' = sessionStorage
               /\ selectedTool = "interview"
                  => /\ location' = location
                     /\ landingFetch' = landingFetch + 1
                     /\ sessionStorage' = sessionStorage]_vars

\* The landing page was submitted with 'ats' selected.
C7_Witness ==
    /\ location = "resumechecker.html"
    /\ landingFetch = 0
    /\ sessionStorage = <<>>

\* C8: a follow-up that has been inserted and not yet asked is the next
\* question to be asked: no follow-up waits behind another unasked question.
C8_FollowUpAskedNext ==
    initialQuestions # NoList
        => \A i \in 1..Len(initialQuestions) :
               i > currentQuestionIndex + 1
                   => initialQuestions[i] \notin FollowUpTexts

\* A reply to /api/follow-up that inserts no question.
NoFollowUp(outcome, followUp) ==
    \/ outcome # "ok"
    \/ followUp = NextQuestionMark
    \/ ~Truthy(followUp)

\* C9: the step that handles a failed or non-ok /api/follow-up reply, or an ok
\* reply with '[NEXT_QUESTION]' or without a question, leaves initialQuestions
\* and currentQuestionIndex unchanged, keeps the answer in allUserAnswers and
\* conversationHistory, and schedules askNextQuestion.
C9_FollowUpFailure ==
    [][\A outcome \in Outcomes, followUp \in FollowUpFields :
          (NoFollowUp(outcome, followUp) /\ FollowUpSettleWith(outcome, followUp))
              => /\ initialQuestions' = initialQuestions
                 /\ currentQuestionIndex' = currentQuestionIndex
                 /\ allUserAnswers' = allUserAnswers
                 /\ allUserAnswers # <<>>
                 /\ conversationHistory' = conversationHistory
                 /\ <<"user", allUserAnswers[Len(allUserAnswers)]>>
                        \in Range(conversationHistory)
                 /\ timers' = timers + 1]_vars

\* The first answer's follow-up request was handled without a follow-up: the
\* list is the backend's, the answer is recorded, askNextQuestion is scheduled.
C9_Witness ==
    /\ initialQuestions = <<"q1", "q2">>
    /\ currentQuestionIndex = 1
    /\ allUserAnswers = <<"a">>
    /\ recordingsStarted = 1
    /\ followUpInFlight = 0
    /\ timers = 1

\* C10: the step in which a recognition session ends with currentTranscript
\* empty appends nothing to allUserAnswers and conversationHistory, sends no
\* /api/follow-up request and schedules askNextQuestion.
C10_EmptyAnswer ==
    [][(starting' + listening' < starting + listening /\ currentTranscript = "")
          => /\ allUserAnswers' = allUserAnswers
             /\ conversationHistory' = conversationHistory
             /\ followUpInFlight' = followUpInFlight
             /\ timers' = timers + 1
             /\ initialQuestions' = initialQuestions
             /\ currentQuestionIndex' = currentQuestionIndex]_vars

\* The session recorded for the first question ended without a transcript:
\* the question has no answer and askNextQuestion is scheduled.
C10_Witness ==
    /\ currentQuestionIndex = 1
    /\ conversationHistory = <<<<"model", "q1">>>>
    /\ allUserAnswers = <<>>
    /\ recordingsStarted = 1
    /\ starting = 0 /\ listening = 0
    /\ followUpInFlight = 0
    /\ timers = 1

\* C11: the record button is disabled whenever the AI is speaking: in every
\* state of the voice page in which an utterance started by speak() has not
\* yet ended (a question or the closing message), recordBtn.disabled is true.
C11_DisabledWhileSpeaking ==
    (page = "voice" /\ speechQueue # <<>>) => recordBtnDisabled

====
